---- MODULE Spec2Model ----
(***************************************************************************)
(* Dependency-triggered orchestration of teams (Raq.Ai doc-gen).           *)
(*                                                                         *)
(* WorkflowOrchestrator (workflow_orchestrator.py) is a status registry    *)
(* with a table of team subscriptions; every set() call writes a status    *)
(* under the lock, snapshots registry and table, and then, outside the     *)
(* lock, submits team.start to a thread pool for each subscription of the  *)
(* snapshot that is untriggered and whose wait-set is COMPLETE.  Team      *)
(* (team.py) reports Started / Complete / Error through the same set().    *)
(*                                                                         *)
(* A critical section (`with self._lock:`) is one atomic step.  What a     *)
(* thread does on its own locals up to its next access to shared state is  *)
(* folded into the step before it: a set() call whose snapshot fires no    *)
(* (further) subscription returns in the step of its critical section.     *)
(***************************************************************************)
EXTENDS Integers, Sequences, FiniteSets, TLC

\* ---------------------------------------------------------------- bounds
\* worker threads of the pool that are modelled (the pool's default is 10)
max_workers == 1
\* direct set() calls the API client makes in the API specification
MaxClientSets == 2
\* teams of the workflow the API client initializes in the API specification
MaxClientTeams == 2
\* subscriptions made on the ObservableStore
MaxObsSubs == 2
\* set() calls made on the ObservableStore
MaxObsSets == 2
\* Team.stop calls the API client makes
MaxStops == 2
\* teams of the workflows handed to the planners
MaxPlanTeams == 3
\* calls of unsubscribe functions the API client makes
MaxUnsubs == 2
\* dispatches of one team explored beside unsubscribe calls (a record that is
\* never marked is dispatched by every set call, its own team's included)
MaxDispatches == 3

\* ------------------------------------------------------------- constants
TeamList == <<"A", "B", "C">>
Teams == {TeamList[n] : n \in 1..Len(TeamList)}

PENDING == "pending"
STARTED == "started"
COMPLETE == "complete"
ERROR == "error"
TaskStatus == {STARTED, PENDING, COMPLETE, ERROR}
\* a key that is absent from the dict
Unset == "unset"

Driver == 0
Workers == 1..max_workers
Threads == {Driver} \cup Workers

VARIABLES
    depends_on,  \* TeamConfig.depends_on of every team, as the list Team.initialize builds
    bodyFails,   \* teams whose team_runner.start() raises
    createFails, \* teams for which team_runner_factory.create() raises
    data,        \* WorkflowOrchestrator._data
    team_subs,   \* WorkflowOrchestrator._team_subs
    executor,    \* per team, the start items submitted to the ThreadPoolExecutor that no worker has begun
    team_runner, \* Team.team_runner is set (TRUE) or None (FALSE)
    initialized, \* teams on which Team.initialize has been called
    initTeam,    \* the team whose Team.initialize is between subscribing and creating its runner
    pc,          \* position of every thread
    call,        \* locals of the set() call a thread is in
    task,        \* the work item a worker is executing
    nextRun,     \* index in TeamList of the next team the driver queues
    clientSets,  \* direct set() calls made by the API client
    dispatches,  \* history: per team, how many times its start was submitted to the executor
    satSeen,     \* history: teams whose record some snapshot has held with its wait-set satisfied
    byFirst,     \* history: teams submitted by the first set() call whose snapshot held their record satisfied
    overlap,     \* history: some set() call began while another thread was inside set()
    everComplete,\* history: ids that have been written COMPLETE
    written,     \* history: per id, the value of the last set(id, value) call to take the lock
    handled,     \* history: teams for which a failure handler of _safe_team_action has finished
    o_data,      \* ObservableStore._data
    o_team_subs, \* ObservableStore._team_subs
    o_call,      \* ObservableStore.set: locals of the call, and what it has submitted per snapshot entry
    o_fired,     \* history: per team, the actions ObservableStore.set has submitted for it
    o_count,     \* calls made on the ObservableStore: subscribe_team and set
    lock,        \* WorkflowOrchestrator._lock: the set of threads holding it (written by the lock-level specification only)
    stopped,     \* TeamRunner._running was reset by stop: pairs <<team, number of starts of the team begun so far>>
    stop_ret,    \* the last Team.stop call: its team and how it ended
    stops,       \* Team.stop calls made by the API client
    wf,          \* the workflow handed to a planner: its teams in file order, each with a name (id) and depends_on
    last_team_executed, \* get_execution_phases: the argument, "" for None
    completed_teams,    \* get_execution_phases: the local set of team keys (the index of the team)
    phases,      \* get_execution_phases: the local list of phases, each a list of team keys
    plan_pc,     \* get_execution_phases: position
    plan_ret,    \* get_execution_phases: what the call returned or raised
    val_entry,   \* the method of workflow.py that was called: "get_dependency_order" or "validate_workflow"
    val_pc,      \* get_dependency_order / validate_workflow: position
    remaining_teams, \* get_dependency_order: the local set of ids
    levels,      \* get_dependency_order: the local list of levels (each level as the set of its ids)
    issues,      \* validate_workflow: the local list of issues (as a set)
    val_ret,     \* what the called method returned or raised
    twins,       \* teams the API client has subscribed a second time, with the same wait-set
    detached,    \* ids of the records an unsubscribe removed from the table while they were triggered
    unsub_calls, \* the ids of the records whose unsubscribe function was called, in call order
    entry,       \* the PipelineRunner method that was called: "run_pipeline" or "run_planning_only"
    plPc,        \* run_pipeline: position
    missing_files, \* run_pipeline: the required files that do not exist
    cancellation_flag, \* PipelineRunner.cancellation_flag: "none" (None), "clear" or "set"
    plStarted,   \* run_pipeline: stages that have been started
    plOutcome,   \* run_pipeline: per stage, "none", "ok", "failed" or "raised"
    plResult     \* run_pipeline: "none" while running, then "true", "false" or "raised"

vars == <<depends_on, bodyFails, data, team_subs, executor, team_runner,
          initialized, initTeam, pc, call, task, nextRun, clientSets,
          createFails, dispatches, satSeen, byFirst, overlap, everComplete, written,
          handled, lock, o_data, o_team_subs, o_call, o_fired, o_count,
          stopped, stop_ret, stops,
          wf, last_team_executed, completed_teams, phases, plan_pc, plan_ret,
          val_entry, val_pc, remaining_teams, levels, issues, val_ret,
          twins, detached, unsub_calls,
          entry, plPc, missing_files, cancellation_flag, plStarted, plOutcome, plResult>>

pipe == <<entry, plPc, missing_files, cancellation_flag, plStarted, plOutcome, plResult>>
obs == <<o_data, o_team_subs, o_call, o_fired, o_count>>
\* what the orchestrator, the store and the pipeline leave alone
halt == <<stopped, stop_ret, stops>>
planner == <<last_team_executed, completed_teams, phases, plan_pc, plan_ret>>
validation == <<val_entry, val_pc, remaining_teams, levels, issues, val_ret>>
removal == <<twins, detached, unsub_calls>>
more == <<halt, wf, planner, validation, removal>>
conf == <<depends_on, bodyFails, createFails, pipe, obs, more>>
\* what no step of the orchestrator changes when critical sections are single steps
cfg == <<conf, lock>>
orch == <<depends_on, bodyFails, createFails, data, team_subs, executor, team_runner,
          initialized, initTeam, pc, call, task, nextRun, clientSets, lock, obs, more>>
\* the orchestrator's own state, its declaration included
orch_core == <<depends_on, bodyFails, createFails, data, team_subs, executor, team_runner,
               initialized, initTeam, pc, call, task, nextRun, clientSets, lock>>
hist == <<dispatches, satSeen, byFirst, overlap, everComplete, written, handled>>

\* ------------------------------------------------------------ registry
\* dict.get(key, TaskStatus.PENDING)
Get_raw(d, key) == d[key]

Get(d, key) == IF d[key] = Unset THEN PENDING ELSE d[key]

has_errors(d, task_id) == Get(d, task_id) = ERROR

is_completed(d, task_ids) == \A a \in task_ids : Get(d, a) = COMPLETE

all_complete(d) ==
    /\ \E k \in DOMAIN d : d[k] # Unset
    /\ \A k \in DOMAIN d : d[k] # Unset => d[k] = COMPLETE

\* ------------------------------------------------------- subscriptions
\* A record is a dict object.  `oid` is the identity of the object a record
\* of the table is (0 for a dict that is not in the table: a copy); it is not
\* a key of the dict and takes no part in `==`.
NewSub_triggered(team, agent_ids) ==
    [team |-> team, agent_ids |-> agent_ids, triggered |-> TRUE, oid |-> 0]

\* the dict subscribe_team builds
NewSub(team, agent_ids) ==
    [team |-> team, agent_ids |-> agent_ids, triggered |-> FALSE, oid |-> 0]

\* the position of a team in the workflow
TeamIndex(t) == CHOOSE n \in 1..Len(TeamList) : TeamList[n] = t

\* the identity of the k-th record subscribed for team t
Oid(t, k) == TeamIndex(t) + (k - 1) * Len(TeamList)

\* the k-th record subscribed for team t, as the table holds it
Registered(t, agent_ids, k) == [NewSub(t, agent_ids) EXCEPT !.oid = Oid(t, k)]

\* dict equality: same team object, same wait-set, same flag
SameDict(a, b) ==
    /\ a.team = b.team
    /\ a.agent_ids = b.agent_ids
    /\ a.triggered = b.triggered

\* `sub in self._team_subs`: list membership by dict equality
SubIn(sub, subs) == \E n \in 1..Len(subs) : SameDict(subs[n], sub)

\* self._team_subs.remove(sub): drops the first element equal to sub
RemoveFirst_all(subs, sub) == <<>>

RemoveFirst(subs, sub) ==
    IF ~SubIn(sub, subs) THEN subs
    ELSE LET n == CHOOSE m \in 1..Len(subs) :
                      SameDict(subs[m], sub) /\ \A l \in 1..(m-1) : ~SameDict(subs[l], sub)
         IN  SubSeq(subs, 1, n-1) \o SubSeq(subs, n+1, Len(subs))

_dependencies_complete_nonempty(sub, d) ==
    /\ sub.agent_ids # {}
    /\ \A a \in sub.agent_ids : Get(d, a) = COMPLETE

_dependencies_complete_any(sub, d) ==
    \/ sub.agent_ids = {}
    \/ \E a \in sub.agent_ids : Get(d, a) = COMPLETE

_dependencies_complete(sub, d) ==
    \/ sub.agent_ids = {}
    \/ \A a \in sub.agent_ids : Get(d, a) = COMPLETE

\* the condition of the `if` in the evaluation loop of set()
Fires(sub, d) == ~sub.triggered /\ _dependencies_complete(sub, d)

\* the loop `for real_sub in self._team_subs: if <same team and wait-set>:
\* real_sub['triggered'] = True; break` (the snapshot holds copies, so
\* `real_sub is sub` never holds)
MarkTriggered_none(subs, sub) == subs

MarkTriggered(subs, sub) ==
    LET match(n) == subs[n].team = sub.team /\ subs[n].agent_ids = sub.agent_ids
    IN  IF \E n \in 1..Len(subs) : match(n)
        THEN LET n == CHOOSE m \in 1..Len(subs) :
                          match(m) /\ \A l \in 1..(m-1) : ~match(l)
             IN  [subs EXCEPT ![n].triggered = TRUE]
        ELSE subs

\* -------------------------------------------------------------- locals
NoCall == [key |-> "", value |-> "", data_copy |-> <<>>, team_subs_copy |-> <<>>,
           i |-> 0, ret |-> "", satfirst |-> {}, late |-> {}, gone |-> {}]
NoTask == [team |-> "", sub |-> <<>>]

InSet(th) == pc[th] \in {"submit", "mark"}

\* first index >= c.i of the snapshot whose subscription fires (0: none)
NextFiring(c) ==
    LET S == {n \in c.i..Len(c.team_subs_copy) : Fires(c.team_subs_copy[n], c.data_copy)}
    IN  IF S = {} THEN 0 ELSE CHOOSE n \in S : \A m \in S : n <= m

\* The evaluation loop of set() with locals c runs on to its next submit,
\* or set() returns to `c.ret`; a worker whose Team.start thereby returns
\* leaves _safe_team_action and is idle again.
\* (tk: the workers' items as the calling step leaves them)
Continue(th, c, tk) ==
    IF NextFiring(c) # 0
    THEN /\ pc' = [pc EXCEPT ![th] = "submit"]
         /\ call' = [call EXCEPT ![th] = [c EXCEPT !.i = NextFiring(c)]]
         /\ task' = tk
    ELSE /\ pc' = [pc EXCEPT ![th] = IF c.ret = "returned" THEN "idle" ELSE c.ret]
         /\ call' = [call EXCEPT ![th] = NoCall]
         /\ task' = IF c.ret = "returned" THEN [tk EXCEPT ![th] = NoTask] ELSE tk

\* self._data[key] = value
Write_lost(d, key, value) == [k \in DOMAIN d |-> IF k = key THEN value ELSE Unset]

Write(d, key, value) == [d EXCEPT ![key] = value]

\* The critical section at the head of set(): write, then snapshot registry
\* and table.
SetBegin(th, key, value, ret, tk) ==
    LET d == Write(data, key, value)
        \* teams with a record in the table whose wait-set d satisfies
        sat == {team_subs[n].team : n \in {m \in 1..Len(team_subs) :
                                          is_completed(d, team_subs[m].agent_ids)}}
    IN
    /\ data' = d
    /\ Continue(th, [key |-> key, value |-> value, data_copy |-> d,
                     team_subs_copy |-> team_subs, i |-> 1, ret |-> ret,
                     satfirst |-> sat \ satSeen, late |-> handled,
                     gone |-> {unsub_calls[n] : n \in 1..Len(unsub_calls)}], tk)
    /\ satSeen' = satSeen \cup sat
    /\ overlap' = (overlap \/ \E o \in Threads \ {th} : InSet(o))
    /\ everComplete' = IF value = COMPLETE THEN everComplete \cup {key} ELSE everComplete
    /\ written' = [written EXCEPT ![key] = value]

\* ------------------------------------------------------------ set()
\* self._executor.submit(self._safe_team_action, sub, 'start', ...) for the
\* subscription the loop stands at
CanSubmit_idle_worker == \E w \in Workers : pc[w] = "idle"

\* ThreadPoolExecutor.submit queues the item and returns; it does not wait
\* for a free worker
CanSubmit == TRUE

SetSubmit(th) ==
    /\ pc[th] = "submit"
    /\ CanSubmit
    /\ LET sub == call[th].team_subs_copy[call[th].i]
       IN  /\ executor' = [executor EXCEPT ![sub.team] = @ + 1]
           /\ dispatches' = [dispatches EXCEPT ![sub.team] = @ + 1]
           /\ byFirst' = IF sub.team \in call[th].satfirst
                         THEN byFirst \cup {sub.team} ELSE byFirst
    /\ pc' = [pc EXCEPT ![th] = "mark"]
    /\ UNCHANGED <<cfg, data, team_subs, team_runner, initialized, initTeam, call,
                   task, nextRun, clientSets, satSeen, overlap, everComplete,
                   written, handled>>

\* The critical section after the submit: mark the table's record triggered
SetMark(th) ==
    /\ pc[th] = "mark"
    /\ team_subs' = MarkTriggered(team_subs, call[th].team_subs_copy[call[th].i])
    /\ Continue(th, [call[th] EXCEPT !.i = @ + 1], task)
    /\ UNCHANGED <<cfg, data, executor, team_runner, initialized, initTeam,
                   nextRun, clientSets, hist>>

\* ------------------------------------------------- Team.initialize
\* subscribe_team(self, dependencies): append the record under the lock
Subscribe(t) ==
    /\ team_subs' = Append(team_subs, Registered(t, depends_on[t], 1))
    /\ initialized' = initialized \cup {t}
    /\ initTeam' = t
    /\ pc' = [pc EXCEPT ![Driver] = "create_runner"]
    /\ UNCHANGED <<cfg, data, executor, team_runner, call, task, nextRun,
                   clientSets, hist>>

\* self.team_runner = team_runner_factory.create(self): the factory returns
\* a runner, or raises and the runner stays None (the except clause only logs)
CreateRunner(ret) ==
    /\ pc[Driver] = "create_runner"
    /\ team_runner' = [team_runner EXCEPT ![initTeam] = initTeam \notin createFails]
    /\ initTeam' = ""
    /\ pc' = [pc EXCEPT ![Driver] = ret]
    /\ UNCHANGED <<cfg, data, team_subs, executor, initialized, call, task,
                   clientSets, hist>>

\* --------------------------------------------------- workflow driver
\* The driver initializes every team in list order ...
DriverSubscribe ==
    /\ pc[Driver] = "init"
    /\ nextRun <= Len(TeamList)
    /\ Subscribe(TeamList[nextRun])

DriverCreateRunner ==
    /\ nextRun <= Len(TeamList)
    /\ IF nextRun < Len(TeamList)
       THEN CreateRunner("init") /\ nextRun' = nextRun + 1
       ELSE CreateRunner("run") /\ nextRun' = 1

\* ... and then queues every team: Team.run() is set(id, PENDING)
DriverRun ==
    /\ pc[Driver] = "run"
    /\ nextRun <= Len(TeamList)
    /\ SetBegin(Driver, TeamList[nextRun], PENDING, "run", task)
    /\ nextRun' = nextRun + 1
    /\ UNCHANGED <<cfg, team_subs, executor, team_runner, initialized, initTeam,
                   clientSets, dispatches, byFirst, handled>>

\* ------------------------------------------------------- pool workers
\* A worker begins _safe_team_action(sub, 'start', ...) for a submitted
\* item; sub is the snapshot's copy of the record, which is untriggered.
\* Team.start: `if not self.team_runner: raise RuntimeError`
TeamStartNoRunner(w, t) ==
    /\ pc[w] = "idle"
    /\ executor[t] > 0
    /\ ~team_runner[t]
    /\ executor' = [executor EXCEPT ![t] = @ - 1]
    /\ task' = [task EXCEPT ![w] = [team |-> t, sub |-> NewSub(t, depends_on[t])]]
    /\ pc' = [pc EXCEPT ![w] = "handler"]
    /\ UNCHANGED <<cfg, data, team_subs, team_runner, initialized, initTeam,
                   call, nextRun, clientSets, hist>>

\* Team.start: self.orchestrator.set(self.id, TaskStatus.STARTED)
TeamStart(w, t) ==
    /\ pc[w] = "idle"
    /\ executor[t] > 0
    /\ team_runner[t]
    /\ executor' = [executor EXCEPT ![t] = @ - 1]
    /\ SetBegin(w, t, STARTED, "body",
                [task EXCEPT ![w] = [team |-> t, sub |-> NewSub(t, depends_on[t])]])
    /\ UNCHANGED <<cfg, team_subs, team_runner, initialized, initTeam,
                   nextRun, clientSets, dispatches, byFirst, handled>>

\* Team.start: self.team_runner.start() returns or raises, then the write
\* of COMPLETE, or of ERROR before the re-raise
TeamBody(w) ==
    /\ pc[w] = "body"
    /\ IF task[w].team \in bodyFails
       THEN SetBegin(w, task[w].team, ERROR, "handler", task)
       ELSE SetBegin(w, task[w].team, COMPLETE, "returned", task)
    /\ UNCHANGED <<cfg, team_subs, executor, team_runner, initialized, initTeam,
                   nextRun, clientSets, dispatches, byFirst, handled>>

\* _safe_team_action, the except clause: `if sub in self._team_subs:
\* self._team_subs.remove(sub)` with the snapshot's copy of the record
SafeActionHandler(w) ==
    /\ pc[w] = "handler"
    /\ team_subs' = RemoveFirst(team_subs, task[w].sub)
    /\ handled' = handled \cup {task[w].team}
    /\ task' = [task EXCEPT ![w] = NoTask]
    /\ pc' = [pc EXCEPT ![w] = "idle"]
    /\ UNCHANGED <<cfg, data, executor, team_runner, initialized, initTeam, call,
                   nextRun, clientSets, dispatches, satSeen, byFirst, overlap,
                   everComplete, written>>

\* ------------------------------------------------------ specification
Stages == {"planning", "production", "analysis"}
required_files == {"planning_yaml", "production_yaml", "tools_config_path"}

\* workflows: C waits on {A, B}; B and C both wait on the root A
Graphs ==
    { [t \in Teams |-> IF t = "C" THEN {"A", "B"} ELSE {}],
      [t \in Teams |-> IF t = "A" THEN {} ELSE {"A"}] }

\* ids written to and waited for on the ObservableStore
ObsIds == {"A", "B"}

NoObsCall == [pc |-> "idle", data_copy |-> <<>>, team_subs_copy |-> <<>>, i |-> 0,
              acted |-> <<>>]

\* ObservableStore.__init__
InitObs ==
    /\ o_data = [k \in ObsIds |-> Unset]
    /\ o_team_subs = <<>>
    /\ o_call = NoObsCall
    /\ o_fired = [t \in Teams |-> {}]
    /\ o_count = [subs |-> 0, sets |-> 0]

NoStop == [team |-> "", outcome |-> "none", was_running |-> FALSE]

\* no Team.stop call has been made
InitHalt ==
    /\ stopped = {}
    /\ stop_ret = NoStop
    /\ stops = 0

NoPlanRet == [kind |-> "none", value |-> <<>>]

\* no planner is running
NoPlanner ==
    /\ last_team_executed = ""
    /\ completed_teams = {}
    /\ phases = <<>>
    /\ plan_pc = "idle"
    /\ plan_ret = NoPlanRet

\* the workflows the driver runs: those, and C waiting on B beside a root A
Workflows ==
    Graphs \cup { [t \in Teams |-> IF t = "C" THEN {"B"} ELSE {}] }

\* no team is subscribed twice and no unsubscribe function has been called
InitRemoval ==
    /\ twins = {}
    /\ detached = {}
    /\ unsub_calls = <<>>

InitCore ==
    /\ data = [t \in Teams |-> Unset]
    /\ team_subs = <<>>
    /\ executor = [t \in Teams |-> 0]
    /\ team_runner = [t \in Teams |-> FALSE]
    /\ initialized = {}
    /\ initTeam = ""
    /\ call = [th \in Threads |-> NoCall]
    /\ task = [th \in Threads |-> NoTask]
    /\ nextRun = 1
    /\ clientSets = 0
    /\ dispatches = [t \in Teams |-> 0]
    /\ satSeen = {}
    /\ byFirst = {}
    /\ overlap = FALSE
    /\ everComplete = {}
    /\ written = [t \in Teams |-> Unset]
    /\ handled = {}
    /\ lock = {}
    /\ InitObs
    /\ InitHalt
    /\ InitRemoval

\* workflow.py: neither get_dependency_order nor validate_workflow is running
NoValidation ==
    /\ val_entry = "none"
    /\ val_pc = "idle"
    /\ remaining_teams = {}
    /\ levels = <<>>
    /\ issues = {}
    /\ val_ret = NoPlanRet

InitCommon ==
    /\ InitCore
    /\ wf = <<>>
    /\ NoPlanner
    /\ NoValidation

\* the pipeline runner is not running
NoPipeline ==
    /\ entry = "none"
    /\ plPc = "done"
    /\ missing_files = {}
    /\ cancellation_flag = "none"
    /\ plStarted = {}
    /\ plOutcome = [st \in Stages |-> "none"]
    /\ plResult = "none"

Init ==
    /\ InitCommon
    /\ depends_on \in Workflows
    /\ bodyFails \in {{}, {"A"}}
    /\ NoPipeline
    /\ createFails \in {{}, {"B"}}
    /\ pc = [th \in Threads |-> IF th = Driver THEN "init" ELSE "idle"]

WorkerStep(w) ==
    \/ \E t \in Teams : TeamStartNoRunner(w, t)
    \/ \E t \in Teams : TeamStart(w, t)
    \/ TeamBody(w)
    \/ SafeActionHandler(w)

SetStep(th) ==
    \/ SetSubmit(th)
    \/ SetMark(th)

Next ==
    \/ DriverSubscribe
    \/ DriverCreateRunner
    \/ DriverRun
    \/ \E th \in Threads : SetStep(th)
    \/ \E w \in Workers : WorkerStep(w)

Spec == Init /\ [][Next]_vars

\* ------------------------------------------- faulty declarations
\* workflows with a dependency cycle: B and C wait on each other beside a
\* root A, or B waits on itself
CyclicWorkflows ==
    { [t \in Teams |-> IF t = "B" THEN {"C"} ELSE IF t = "C" THEN {"B"} ELSE {}],
      [t \in Teams |-> IF t = "B" THEN {"B"} ELSE {}] }

\* WorkflowManager.initialize registers the teams as they were loaded:
\* nothing validates the declaration before the teams are registered and
\* queued
InitFaulty ==
    /\ InitCommon
    /\ depends_on \in CyclicWorkflows
    /\ bodyFails \in {{}, {"A"}}
    /\ NoPipeline
    /\ createFails \in {{}, {"C"}}
    /\ pc = [th \in Threads |-> IF th = Driver THEN "init" ELSE "idle"]

SpecFaulty == InitFaulty /\ [][Next]_vars

\* ------------------------------------------------------ API client
\* A caller of the orchestrator's API: it initializes teams and calls
\* set(key, value) with any id and status, at any time.
ClientSubscribe(t) ==
    /\ pc[Driver] = "client"
    /\ nextRun <= Len(TeamList)
    /\ nextRun <= MaxClientTeams
    /\ t = TeamList[nextRun]
    /\ Subscribe(t)

ClientCreateRunner ==
    /\ CreateRunner("client")
    /\ nextRun' = nextRun + 1

ClientSet(key, value) ==
    /\ pc[Driver] = "client"
    /\ clientSets < MaxClientSets
    /\ clientSets' = clientSets + 1
    /\ SetBegin(Driver, key, value, "client", task)
    /\ UNCHANGED <<cfg, team_subs, executor, team_runner, initialized, initTeam,
                   nextRun, dispatches, byFirst, handled>>

InitApi ==
    /\ InitCommon
    /\ depends_on \in Graphs
    /\ bodyFails \in {{}, {"A"}}
    /\ NoPipeline
    /\ createFails \in {{}, {"B"}}
    /\ pc = [th \in Threads |-> IF th = Driver THEN "client" ELSE "idle"]

NextApi ==
    \/ \E t \in Teams : ClientSubscribe(t)
    \/ ClientCreateRunner
    \/ \E key \in Teams, value \in TaskStatus : ClientSet(key, value)
    \/ \E th \in Threads : SetStep(th)
    \/ \E w \in Workers : WorkerStep(w)

SpecApi == InitApi /\ [][NextApi]_vars

\* ------------------------------------------------------------ get()
\* get(key): `with self._lock: return self._data.get(key, TaskStatus.PENDING)`;
\* the caller holds the returned status in its locals
ClientGet(key) ==
    /\ pc[Driver] = "client"
    /\ call' = [call EXCEPT ![Driver] = [NoCall EXCEPT !.key = key,
                                                       !.value = Get(data, key),
                                                       !.ret = "get"]]
    /\ UNCHANGED <<cfg, data, team_subs, executor, team_runner, initialized, initTeam,
                   pc, task, nextRun, clientSets, hist>>

InitGet ==
    /\ InitCommon
    /\ depends_on = [t \in Teams |-> IF t = "A" THEN {} ELSE {"A"}]
    /\ bodyFails = {}
    /\ NoPipeline
    /\ createFails = {}
    /\ pc = [th \in Threads |-> IF th = Driver THEN "client" ELSE "idle"]

NextGet ==
    \/ \E t \in Teams : ClientSubscribe(t)
    \/ ClientCreateRunner
    \/ \E key \in Teams, value \in TaskStatus : ClientSet(key, value)
    \/ \E key \in Teams : ClientGet(key)
    \/ \E th \in Threads : SetStep(th)
    \/ \E w \in Workers : WorkerStep(w)

SpecGet == InitGet /\ [][NextGet]_vars

\* ------------------------------------------------------- Team.stop
\* starts of team t that a worker has begun
Begun(t) == dispatches[t] - executor[t]

\* TeamRunner._running: True while TeamRunner.start runs, until stop resets it
_running(t) ==
    /\ \E w \in Workers : pc[w] = "body" /\ task[w].team = t
    /\ <<t, Begun(t)>> \notin stopped

\* Team.stop(force): `self.team_runner.stop(force)`; with team_runner None
\* the attribute access raises.  TeamRunner.stop: `if self._running: ...
\* self._running = False`; force is only logged.
TeamStop(t, force) ==
    /\ pc[Driver] = "client"
    /\ stops < MaxStops
    /\ stops' = stops + 1
    /\ IF ~team_runner[t]
       THEN /\ stop_ret' = [team |-> t, outcome |-> "raised", was_running |-> FALSE]
            /\ stopped' = stopped
       ELSE /\ stop_ret' = [team |-> t, outcome |-> "returned", was_running |-> _running(t)]
            /\ stopped' = IF _running(t) THEN stopped \cup {<<t, Begun(t)>>} ELSE stopped
    /\ UNCHANGED <<orch_core, hist, pipe, obs, wf, planner, validation, removal>>

InitStop ==
    /\ InitCommon
    /\ depends_on = [t \in Teams |-> IF t = "A" THEN {} ELSE {"A"}]
    /\ bodyFails \in {{}, {"A"}}
    /\ NoPipeline
    /\ createFails = {"B"}
    /\ pc = [th \in Threads |-> IF th = Driver THEN "client" ELSE "idle"]

NextStop ==
    \/ \E t \in Teams : ClientSubscribe(t)
    \/ ClientCreateRunner
    \/ \E key \in Teams, value \in TaskStatus : ClientSet(key, value)
    \/ \E t \in Teams, force \in BOOLEAN : TeamStop(t, force)
    \/ \E th \in Threads : SetStep(th)
    \/ \E w \in Workers : WorkerStep(w)

SpecStop == InitStop /\ [][NextStop]_vars

\* ------------------------------------------- unsubscribe functions
\* A caller that subscribes a team a second time with the same wait-set,
\* calls the functions subscribe_team returned, and writes the status of
\* "A", the id the other teams wait on.

\* subscribe_team(team, agent_ids) again: a second dict object is appended
Resubscribe(t) ==
    /\ pc[Driver] = "client"
    /\ t \in initialized
    /\ t \notin twins
    /\ team_subs' = Append(team_subs, Registered(t, depends_on[t], 2))
    /\ twins' = twins \cup {t}
    /\ UNCHANGED <<depends_on, bodyFails, createFails, data, executor, team_runner,
                   initialized, initTeam, pc, call, task, nextRun, clientSets, lock,
                   hist, pipe, obs, halt, wf, planner, validation, detached, unsub_calls>>

\* the k-th subscription of team t has been made
Subscribed(t, k) == IF k = 1 THEN t \in initialized ELSE t \in twins

\* `sub` as the closure of the k-th subscription of t sees it: the dict object
\* itself, which set() marks in place while the table holds it; outside the
\* table it keeps the flag it left with (the failure handler only removes
\* records equal to an untriggered copy)
ClosureSub(t, k) ==
    IF \E n \in 1..Len(team_subs) : team_subs[n].oid = Oid(t, k)
    THEN team_subs[CHOOSE n \in 1..Len(team_subs) : team_subs[n].oid = Oid(t, k)]
    ELSE [NewSub(t, depends_on[t]) EXCEPT !.triggered = Oid(t, k) \in detached]

\* the first record of the table that equals `sub`
FirstEqual(subs, sub) ==
    subs[CHOOSE m \in 1..Len(subs) :
             SameDict(subs[m], sub) /\ \A l \in 1..(m-1) : ~SameDict(subs[l], sub)]

\* unsubscribe(): `with self._lock: if sub in self._team_subs:
\* self._team_subs.remove(sub)`; `in` and `remove` compare dicts with ==
Unsubscribe(t, k) ==
    /\ pc[Driver] = "client"
    /\ Subscribed(t, k)
    /\ Len(unsub_calls) < MaxUnsubs
    /\ unsub_calls' = Append(unsub_calls, Oid(t, k))
    /\ team_subs' = RemoveFirst(team_subs, ClosureSub(t, k))
    /\ detached' = IF SubIn(ClosureSub(t, k), team_subs) /\ ClosureSub(t, k).triggered
                   THEN detached \cup {FirstEqual(team_subs, ClosureSub(t, k)).oid}
                   ELSE detached
    /\ UNCHANGED <<depends_on, bodyFails, createFails, data, executor, team_runner,
                   initialized, initTeam, pc, call, task, nextRun, clientSets, lock,
                   hist, pipe, obs, halt, wf, planner, validation, twins>>

\* a step of a set call, while no team is dispatched more than MaxDispatches times
SetStepBounded(th) ==
    /\ SetStep(th)
    /\ \A t \in Teams : dispatches'[t] <= MaxDispatches

InitSubs ==
    /\ InitCommon
    /\ depends_on = [t \in Teams |-> IF t = "A" THEN {} ELSE {"A"}]
    /\ bodyFails \in {{}, {"A"}}
    /\ NoPipeline
    /\ createFails = {}
    /\ pc = [th \in Threads |-> IF th = Driver THEN "client" ELSE "idle"]

NextSubs ==
    \/ \E t \in Teams : ClientSubscribe(t)
    \/ ClientCreateRunner
    \/ \E t \in Teams : Resubscribe(t)
    \/ \E t \in Teams, k \in 1..2 : Unsubscribe(t, k)
    \/ \E value \in {PENDING, COMPLETE} : ClientSet("A", value)
    \/ \E th \in Threads : SetStepBounded(th)
    \/ \E w \in Workers : WorkerStep(w)

SpecSubs == InitSubs /\ [][NextSubs]_vars

\* ------------------------------------------------------ lock level
\* The same API with `with self._lock:` taken and released in steps of their
\* own: a thread at the head of a critical section waits until the lock is
\* free, takes it, and runs the section in its next step, which releases it.
LockFree_always == TRUE

\* threading.Lock is free
LockFree == lock = {}

Release_kept(th) == {th}

\* the end of a `with self._lock:` block
Release(th) == {}

\* positions at the head of a critical section, and the positions inside it
Entering == [want_set |-> "in_set", mark |-> "in_mark", handler |-> "in_handler",
             want_subscribe |-> "in_subscribe"]

AtLock(th) == pc[th] \in DOMAIN Entering

\* a thread is inside a set() call
InCall(th) == pc[th] \in {"want_set", "in_set", "submit", "mark", "in_mark"}

\* `with self._lock:` is entered
LockAcquire(th) ==
    /\ AtLock(th)
    /\ LockFree
    /\ lock' = lock \cup {th}
    /\ pc' = [pc EXCEPT ![th] = Entering[pc[th]]]
    /\ UNCHANGED <<conf, data, team_subs, executor, team_runner, initialized, initTeam,
                   call, task, nextRun, clientSets, hist>>

\* set(): the first critical section
SetLocked(th) ==
    /\ pc[th] = "in_set"
    /\ SetBegin(th, call[th].key, call[th].value, call[th].ret, task)
    /\ lock' = Release(th)
    /\ UNCHANGED <<conf, team_subs, executor, team_runner, initialized, initTeam,
                   nextRun, clientSets, dispatches, byFirst, handled>>

\* set(): the critical section that marks the record triggered
MarkLocked(th) ==
    /\ pc[th] = "in_mark"
    /\ team_subs' = MarkTriggered(team_subs, call[th].team_subs_copy[call[th].i])
    /\ Continue(th, [call[th] EXCEPT !.i = @ + 1], task)
    /\ lock' = Release(th)
    /\ UNCHANGED <<conf, data, executor, team_runner, initialized, initTeam,
                   nextRun, clientSets, hist>>

\* _safe_team_action: the critical section of the except clause
HandlerLocked(w) ==
    /\ pc[w] = "in_handler"
    /\ team_subs' = RemoveFirst(team_subs, task[w].sub)
    /\ handled' = handled \cup {task[w].team}
    /\ task' = [task EXCEPT ![w] = NoTask]
    /\ pc' = [pc EXCEPT ![w] = "idle"]
    /\ lock' = Release(w)
    /\ UNCHANGED <<conf, data, executor, team_runner, initialized, initTeam, call,
                   nextRun, clientSets, dispatches, satSeen, byFirst, overlap,
                   everComplete, written>>

\* subscribe_team: the critical section that appends the record
SubscribeLocked ==
    /\ pc[Driver] = "in_subscribe"
    /\ team_subs' = Append(team_subs, Registered(initTeam, depends_on[initTeam], 1))
    /\ pc' = [pc EXCEPT ![Driver] = "create_runner"]
    /\ lock' = Release(Driver)
    /\ UNCHANGED <<conf, data, executor, team_runner, initialized, initTeam, call, task,
                   nextRun, clientSets, hist>>

\* a thread calls set(key, value) and will go on at `ret` when it returns
SetCall(th, key, value, ret) ==
    /\ pc' = [pc EXCEPT ![th] = "want_set"]
    /\ call' = [call EXCEPT ![th] = [NoCall EXCEPT !.key = key, !.value = value,
                                                   !.ret = ret]]

\* Team.initialize is called by the client, up to subscribe_team's lock
ClientCallSubscribe ==
    /\ pc[Driver] = "client"
    /\ nextRun <= Len(TeamList)
    /\ nextRun <= MaxClientTeams
    /\ initialized' = initialized \cup {TeamList[nextRun]}
    /\ initTeam' = TeamList[nextRun]
    /\ pc' = [pc EXCEPT ![Driver] = "want_subscribe"]
    /\ UNCHANGED <<cfg, data, team_subs, executor, team_runner, call, task, nextRun,
                   clientSets, hist>>

\* set(key, value) is called by the client
ClientCallSet(key, value) ==
    /\ pc[Driver] = "client"
    /\ clientSets < MaxClientSets
    /\ clientSets' = clientSets + 1
    /\ SetCall(Driver, key, value, "client")
    /\ UNCHANGED <<cfg, data, team_subs, executor, team_runner, initialized, initTeam,
                   task, nextRun, hist>>

\* A worker begins _safe_team_action for a submitted item; Team.start calls
\* set(self.id, TaskStatus.STARTED)
TeamStartCall(w, t) ==
    /\ pc[w] = "idle"
    /\ executor[t] > 0
    /\ team_runner[t]
    /\ executor' = [executor EXCEPT ![t] = @ - 1]
    /\ task' = [task EXCEPT ![w] = [team |-> t, sub |-> NewSub(t, depends_on[t])]]
    /\ SetCall(w, t, STARTED, "body")
    /\ UNCHANGED <<cfg, data, team_subs, team_runner, initialized, initTeam, nextRun,
                   clientSets, hist>>

\* Team.start: self.team_runner.start() runs and returns or raises; then
\* set(self.id, COMPLETE), or set(self.id, ERROR) before the re-raise
TeamBodyCall(w) ==
    /\ pc[w] = "body"
    /\ IF task[w].team \in bodyFails
       THEN SetCall(w, task[w].team, ERROR, "handler")
       ELSE SetCall(w, task[w].team, COMPLETE, "returned")
    /\ UNCHANGED <<cfg, data, team_subs, executor, team_runner, initialized, initTeam,
                   task, nextRun, clientSets, hist>>

InitLock ==
    /\ InitCommon
    /\ depends_on = [t \in Teams |-> IF t = "A" THEN {} ELSE {"A"}]
    /\ bodyFails \in {{}, {"A"}}
    /\ NoPipeline
    /\ createFails = {}
    /\ pc = [th \in Threads |-> IF th = Driver THEN "client" ELSE "idle"]

ClientStepLock ==
    \/ ClientCallSubscribe
    \/ SubscribeLocked
    \/ ClientCreateRunner
    \/ \E key \in Teams, value \in TaskStatus : ClientCallSet(key, value)

WorkerStepLock(w) ==
    \/ \E t \in Teams : TeamStartNoRunner(w, t)
    \/ \E t \in Teams : TeamStartCall(w, t)
    \/ TeamBodyCall(w)
    \/ HandlerLocked(w)

SetStepLock(th) ==
    \/ LockAcquire(th)
    \/ SetLocked(th)
    \/ SetSubmit(th)
    \/ MarkLocked(th)

\* everything thread th can do
ThreadStep(th) ==
    \/ SetStepLock(th)
    \/ th = Driver /\ ClientStepLock
    \/ th \in Workers /\ WorkerStepLock(th)

NextLock ==
    \/ ClientStepLock
    \/ \E th \in Threads : SetStepLock(th)
    \/ \E w \in Workers : WorkerStepLock(w)

\* every thread that can take a step eventually takes one
SpecLock == InitLock /\ [][NextLock]_vars /\ \A th \in Threads : WF_vars(ThreadStep(th))

\* ------------------------------------------------------ ObservableStore
Triggers == {"ready", "all_complete", "any_error"}

_evaluate_subscription_trigger_empty_fires(sub, d) ==
    IF sub.agent_ids = {} THEN TRUE
    ELSE IF sub.trigger \in {"ready", "all_complete"}
         THEN \A a \in sub.agent_ids : Get(d, a) = COMPLETE
    ELSE IF sub.trigger = "any_error"
         THEN \E a \in sub.agent_ids : Get(d, a) = ERROR
    ELSE FALSE

_evaluate_subscription_trigger(sub, d) ==
    IF sub.agent_ids = {} THEN sub.trigger \in {"ready", "all_complete"}
    ELSE IF sub.trigger \in {"ready", "all_complete"}
         THEN \A a \in sub.agent_ids : Get(d, a) = COMPLETE
    ELSE IF sub.trigger = "any_error"
         THEN \E a \in sub.agent_ids : Get(d, a) = ERROR
    ELSE FALSE

\* the team action set() submits for a subscription whose trigger is met
SubmittedAction(sub) ==
    IF sub.trigger \in {"ready", "all_complete"} THEN "start"
    ELSE IF sub.trigger = "any_error" THEN "stop"
    ELSE "none"

\* `for real_sub in self._team_subs:` the first record of the same team and
\* wait-set is marked triggered and, when it is one-shot, removed
MarkOrRemove(subs, sub) ==
    LET match(n) == subs[n].team = sub.team /\ subs[n].agent_ids = sub.agent_ids
    IN  IF \E n \in 1..Len(subs) : match(n)
        THEN LET n == CHOOSE m \in 1..Len(subs) :
                          match(m) /\ \A l \in 1..(m-1) : ~match(l)
             IN  IF subs[n].one_shot
                 THEN SubSeq(subs, 1, n-1) \o SubSeq(subs, n+1, Len(subs))
                 ELSE [subs EXCEPT ![n].triggered = TRUE]
        ELSE subs

\* subscribe_team(team, agent_ids, trigger, one_shot); the k-th subscription
\* made is for the k-th team
ObsSubscribe(agent_ids, trigger, one_shot) ==
    /\ o_count.subs < MaxObsSubs
    /\ o_count.subs < Len(TeamList)
    /\ o_team_subs' = Append(o_team_subs,
                             [team |-> TeamList[o_count.subs + 1], agent_ids |-> agent_ids,
                              trigger |-> trigger, one_shot |-> one_shot,
                              triggered |-> FALSE])
    /\ o_count' = [o_count EXCEPT !.subs = @ + 1]
    /\ UNCHANGED <<depends_on, bodyFails, createFails, pipe, more, data, team_subs, executor,
                   team_runner, initialized, initTeam, pc, call, task, nextRun,
                   clientSets, lock, hist, o_data, o_call, o_fired>>

\* set(key, value): the critical section, write and snapshot
ObsSet(key, value) ==
    /\ o_call.pc = "idle"
    /\ o_count.sets < MaxObsSets
    /\ o_count' = [o_count EXCEPT !.sets = @ + 1]
    /\ o_data' = Write(o_data, key, value)
    /\ o_call' = [pc |-> "eval", data_copy |-> Write(o_data, key, value),
                  team_subs_copy |-> o_team_subs, i |-> 1, acted |-> <<>>]
    /\ UNCHANGED <<depends_on, bodyFails, createFails, pipe, more, data, team_subs, executor,
                   team_runner, initialized, initTeam, pc, call, task, nextRun,
                   clientSets, lock, hist, o_team_subs, o_fired>>

\* set(): one turn of `for sub in team_subs_copy:` up to the submit
ObsEvaluate ==
    /\ o_call.pc = "eval"
    /\ o_call.i <= Len(o_call.team_subs_copy)
    /\ LET sub == o_call.team_subs_copy[o_call.i]
           met == _evaluate_subscription_trigger(sub, o_call.data_copy)
           act == IF met THEN SubmittedAction(sub) ELSE "none"
       IN  /\ o_fired' = IF act = "none" THEN o_fired
                          ELSE [o_fired EXCEPT ![sub.team] = @ \cup {act}]
           /\ o_call' = [o_call EXCEPT !.acted = Append(@, act),
                                        !.pc = IF met /\ sub.one_shot THEN "mark" ELSE "eval",
                                        !.i = IF met /\ sub.one_shot THEN @ ELSE @ + 1]
    /\ UNCHANGED <<depends_on, bodyFails, createFails, pipe, more, data, team_subs, executor,
                   team_runner, initialized, initTeam, pc, call, task, nextRun,
                   clientSets, lock, hist, o_data, o_team_subs, o_count>>

\* set(): `if sub.get('one_shot'): with self._lock: ...`
ObsMark ==
    /\ o_call.pc = "mark"
    /\ o_team_subs' = MarkOrRemove(o_team_subs, o_call.team_subs_copy[o_call.i])
    /\ o_call' = [o_call EXCEPT !.pc = "eval", !.i = @ + 1]
    /\ UNCHANGED <<depends_on, bodyFails, createFails, pipe, more, data, team_subs, executor,
                   team_runner, initialized, initTeam, pc, call, task, nextRun,
                   clientSets, lock, hist, o_data, o_fired, o_count>>

\* set() returns
ObsReturn ==
    /\ o_call.pc = "eval"
    /\ o_call.i > Len(o_call.team_subs_copy)
    /\ o_call' = [o_call EXCEPT !.pc = "idle"]
    /\ UNCHANGED <<depends_on, bodyFails, createFails, pipe, more, data, team_subs, executor,
                   team_runner, initialized, initTeam, pc, call, task, nextRun,
                   clientSets, lock, hist, o_data, o_team_subs, o_fired, o_count>>

InitObservable ==
    /\ InitCommon
    /\ depends_on = [t \in Teams |-> {}]
    /\ bodyFails = {}
    /\ createFails = {}
    /\ NoPipeline
    /\ pc = [th \in Threads |-> "idle"]

NextObservable ==
    \/ \E agent_ids \in SUBSET ObsIds, trigger \in Triggers, one_shot \in BOOLEAN :
          ObsSubscribe(agent_ids, trigger, one_shot)
    \/ \E key \in ObsIds, value \in TaskStatus : ObsSet(key, value)
    \/ ObsEvaluate
    \/ ObsMark
    \/ ObsReturn

SpecObservable == InitObservable /\ [][NextObservable]_vars

\* ------------------------------------------- PipelineRunner.run_pipeline
\* `self.cancellation_flag and self.cancellation_flag.is_set()`
Cancelled == cancellation_flag = "set"

\* `if not success: return False`, then the cancellation check that follows
\* a team stage; otherwise run_pipeline goes on to `next`
AfterTeam_ignore_failure(success, next) ==
    IF Cancelled THEN "return_false" ELSE next

AfterTeam(success, next) ==
    IF ~success THEN "return_false"
    ELSE IF Cancelled THEN "return_false" ELSE next

\* run_pipeline returns
Return(where) ==
    IF where = "return_false" THEN /\ plPc' = "done" /\ plResult' = "false"
    ELSE IF where = "return_true" THEN /\ plPc' = "done" /\ plResult' = "true"
    ELSE IF where = "raise" THEN /\ plPc' = "done" /\ plResult' = "raised"
    ELSE /\ plPc' = where /\ plResult' = plResult

\* the files the entry point requires to exist
RequiredBy(e) ==
    IF e = "run_pipeline" THEN required_files
    ELSE {"planning_yaml", "tools_config_path"}

\* what follows the return of run_autogen_team for a team stage
After(success, next) ==
    IF entry = "run_pipeline" THEN AfterTeam(success, next)
    ELSE IF success THEN "return_true" ELSE "return_false"

\* The check of the required files
CheckFiles ==
    /\ plPc = "check_files"
    /\ Return(IF missing_files \cap RequiredBy(entry) # {}
              THEN "return_false" ELSE "create_job_folder")
    /\ UNCHANGED <<orch, hist, entry, missing_files, cancellation_flag, plStarted, plOutcome>>

\* create_job_folder, then copy_assets: file I/O that returns or raises
Prepare(step, next) ==
    /\ plPc = step
    /\ \E io_ok \in BOOLEAN : Return(IF io_ok THEN next ELSE "raise")
    /\ UNCHANGED <<orch, hist, entry, missing_files, cancellation_flag, plStarted, plOutcome>>

\* `success = await self.run_autogen_team(...)` is entered for a team stage
StartTeam(stage) ==
    /\ plPc = stage
    /\ plStarted' = plStarted \cup {stage}
    /\ plPc' = "in_" \o stage
    /\ UNCHANGED <<orch, hist, entry, missing_files, cancellation_flag, plOutcome, plResult>>

\* run_autogen_team: the try block saves the output and returns True
TeamReturnsTrue(stage, next) ==
    /\ plPc = "in_" \o stage
    /\ plOutcome' = [plOutcome EXCEPT ![stage] = "ok"]
    /\ Return(After(TRUE, next))
    /\ UNCHANGED <<orch, hist, entry, missing_files, cancellation_flag, plStarted>>

\* run_autogen_team: the try block raises into `except Exception`
TeamRaises(stage) ==
    /\ plPc = "in_" \o stage
    /\ plPc' = "except_" \o stage
    /\ UNCHANGED <<orch, hist, entry, missing_files, cancellation_flag, plStarted,
                   plOutcome, plResult>>

\* run_autogen_team: the handler writes the error file and returns False
TeamReturnsFalse(stage, next) ==
    /\ plPc = "except_" \o stage
    /\ plOutcome' = [plOutcome EXCEPT ![stage] = "failed"]
    /\ Return(After(FALSE, next))
    /\ UNCHANGED <<orch, hist, entry, missing_files, cancellation_flag, plStarted>>

\* In the try block: the cancellation check, then
\* `await self.process_analysis_runner.run_process_analysis(...)` is entered
StartAnalysis ==
    /\ plPc = "analysis"
    /\ IF Cancelled
       THEN Return("return_false") /\ plStarted' = plStarted
       ELSE Return("in_analysis") /\ plStarted' = plStarted \cup {"analysis"}
    /\ UNCHANGED <<orch, hist, entry, missing_files, cancellation_flag, plOutcome>>

\* The analysis returns True or False, or raises into `except Exception`;
\* none of them fails the pipeline.  Then the final cancellation check.
FinishAnalysis ==
    /\ plPc = "in_analysis"
    /\ \E out \in {"ok", "failed", "raised"} :
          plOutcome' = [plOutcome EXCEPT !["analysis"] = out]
    /\ Return(IF Cancelled THEN "return_false" ELSE "return_true")
    /\ UNCHANGED <<orch, hist, entry, missing_files, cancellation_flag, plStarted>>

\* Another thread sets the cancellation event while the pipeline runs
Cancel ==
    /\ plPc # "done"
    /\ cancellation_flag = "clear"
    /\ cancellation_flag' = "set"
    /\ UNCHANGED <<orch, hist, entry, plPc, missing_files, plStarted, plOutcome, plResult>>

InitPipeline ==
    /\ InitCommon
    /\ depends_on = [t \in Teams |-> {}]
    /\ bodyFails = {}
    /\ createFails = {}
    /\ pc = [th \in Threads |-> "idle"]
    /\ entry \in {"run_pipeline", "run_planning_only"}
    /\ plPc = "check_files"
    /\ missing_files \in SUBSET required_files
    /\ cancellation_flag \in {"none", "clear", "set"}
    /\ plStarted = {}
    /\ plOutcome = [st \in Stages |-> "none"]
    /\ plResult = "none"

TeamStage(stage, next) ==
    \/ StartTeam(stage)
    \/ TeamReturnsTrue(stage, next)
    \/ TeamRaises(stage)
    \/ TeamReturnsFalse(stage, next)

NextPipeline ==
    \/ CheckFiles
    \/ Prepare("create_job_folder", "copy_assets")
    \/ Prepare("copy_assets", "planning")
    \/ TeamStage("planning", "production")
    \/ TeamStage("production", "analysis")
    \/ StartAnalysis
    \/ FinishAnalysis
    \/ Cancel

SpecPipeline == InitPipeline /\ [][NextPipeline]_vars

\* --------------------------- get_execution_phases (_old_workflow_manager.py)
\* names a team can depend on: the teams' names and a name no team has
DepNames == Teams \cup {"X"}

\* the forms of depends_on: None, a single name, a list of names
DependsOnForms ==
    {[form |-> "none", names |-> <<>>]}
        \cup {[form |-> "single", names |-> <<a>>] : a \in DepNames}
        \cup {[form |-> "list", names |-> <<>>]}
        \cup {[form |-> "list", names |-> <<a>>] : a \in DepNames}
        \cup {[form |-> "list", names |-> ab] :
                  ab \in {cd \in DepNames \X DepNames : cd[1] # cd[2]}}

\* the names the k-th team of a workflow can have: its own, or the first
\* team's again
PlanNames(k) == IF k <= Len(TeamList) THEN {TeamList[k], TeamList[1]} ELSE {TeamList[1]}

\* the workflows of up to max teams
PlanWorkflows(max) ==
    UNION {{w \in [1..n -> [name : DepNames, depends_on : DependsOnForms]] :
                \A k \in 1..n : w[k].name \in PlanNames(k)} : n \in 0..max}

\* the elements of a set of team keys in dict order
RECURSIVE InOrder(_)
InOrder(S) ==
    IF S = {} THEN <<>>
    ELSE LET k == CHOOSE m \in S : \A l \in S : m <= l
         IN  <<k>> \o InOrder(S \ {k})

\* `dependencies = depends_on if isinstance(depends_on, list) else [depends_on]`
dependencies(depends) == IF depends.form = "list" THEN depends.names ELSE <<depends.names[1]>>

\* the inner loop over completed_teams: some completed team has the name
dep_completed(tree, completed, dep_name) ==
    \E completed_key \in completed : tree[completed_key].name = dep_name

all_deps_completed_any(tree, completed, depends) ==
    \E n \in 1..Len(dependencies(depends)) :
        dep_completed(tree, completed, dependencies(depends)[n])

all_deps_completed(tree, completed, depends) ==
    \A n \in 1..Len(dependencies(depends)) :
        dep_completed(tree, completed, dependencies(depends)[n])

\* the teams the loop over dependency_tree.items() looks at
Candidates_all(tree, completed) == DOMAIN tree

\* `if team_key in completed_teams: continue`
Candidates(tree, completed) == DOMAIN tree \ completed

\* one pass of `for team_key, team_data in dependency_tree.items()`
ready_teams(tree, completed) ==
    InOrder({k \in Candidates(tree, completed) :
                \/ tree[k].depends_on.form = "none"
                \/ all_deps_completed(tree, completed, tree[k].depends_on)})

remaining_all(tree, completed) == InOrder(DOMAIN tree)

\* `[k for k in dependency_tree.keys() if k not in completed_teams]`
remaining(tree, completed) == InOrder(DOMAIN tree \ completed)

\* `if last_team_executed:` the first team of that name is marked completed
PlanBegin ==
    /\ plan_pc = "call"
    /\ completed_teams' =
          IF last_team_executed # "" /\ \E k \in DOMAIN wf : wf[k].name = last_team_executed
          THEN {CHOOSE k \in DOMAIN wf :
                    /\ wf[k].name = last_team_executed
                    /\ \A l \in 1..(k-1) : wf[l].name # last_team_executed}
          ELSE {}
    /\ plan_pc' = "loop"
    /\ UNCHANGED <<orch_core, hist, pipe, obs, halt, removal, validation, wf, last_team_executed, phases, plan_ret>>

\* one turn of `while len(completed_teams) < len(dependency_tree)`
PlanStep ==
    /\ plan_pc = "loop"
    /\ Cardinality(completed_teams) < Len(wf)
    /\ LET ready == ready_teams(wf, completed_teams)
       IN  IF ready = <<>>
           THEN /\ IF remaining(wf, completed_teams) # <<>>
                   THEN /\ plan_pc' = "raised"
                        /\ plan_ret' = [kind |-> "error",
                                        value |-> remaining(wf, completed_teams)]
                   ELSE /\ plan_pc' = "returned"
                        /\ plan_ret' = [kind |-> "phases", value |-> phases]
                /\ UNCHANGED <<phases, completed_teams>>
           ELSE /\ phases' = Append(phases, ready)
                /\ completed_teams' =
                      completed_teams \cup {ready[n] : n \in 1..Len(ready)}
                /\ UNCHANGED <<plan_pc, plan_ret>>
    /\ UNCHANGED <<orch_core, hist, pipe, obs, halt, removal, validation, wf, last_team_executed>>

\* the loop condition fails: `return phases`
PlanReturn ==
    /\ plan_pc = "loop"
    /\ ~(Cardinality(completed_teams) < Len(wf))
    /\ plan_pc' = "returned"
    /\ plan_ret' = [kind |-> "phases", value |-> phases]
    /\ UNCHANGED <<orch_core, hist, pipe, obs, halt, removal, validation, wf, last_team_executed,
                   completed_teams, phases>>

\* get_execution_phases(build_dependency_tree(), last_team_executed) is
\* called on any workflow, resuming after any name or none
InitPlan ==
    /\ InitCore
    /\ depends_on = [t \in Teams |-> {}]
    /\ bodyFails = {}
    /\ createFails = {}
    /\ NoPipeline
    /\ pc = [th \in Threads |-> "idle"]
    /\ wf \in PlanWorkflows(MaxPlanTeams)
    /\ last_team_executed \in DepNames \cup {""}
    /\ completed_teams = {}
    /\ phases = <<>>
    /\ plan_pc = "call"
    /\ plan_ret = NoPlanRet
    /\ NoValidation

NextPlan ==
    \/ PlanBegin
    \/ PlanStep
    \/ PlanReturn

SpecPlan == InitPlan /\ [][NextPlan]_vars

\* the planner takes its steps
FairPlan == SpecPlan /\ WF_vars(NextPlan)

\* ------------- get_dependency_order, validate_workflow (workflow.py)
\* `set(team.id for team in self.teams)`
team_ids(teams) == {teams[k].name : k \in DOMAIN teams}

\* `team_deps[team.id] = team.depends_on` in list order: a later team of the
\* same id replaces the entry
team_deps(teams, team_id) ==
    LET k == CHOOSE m \in DOMAIN teams :
                 /\ teams[m].name = team_id
                 /\ \A l \in DOMAIN teams : teams[l].name = team_id => l <= m
    IN  teams[k].depends_on

\* `dep in a_set` hashes dep: a list is unhashable and the test raises TypeError
Unhashable(dep) == dep.form = "list"

\* bool(depends_on): None and the empty list are false
Truthy(dep) == dep.form = "single" \/ (dep.form = "list" /\ dep.names # <<>>)

ReadyIds_ignore_deps(teams, rem) == rem

\* `dep is None or dep not in remaining_teams`, for the ids of rem
ReadyIds(teams, rem) ==
    {team_id \in rem :
        \/ team_deps(teams, team_id).form = "none"
        \/ team_deps(teams, team_id).names[1] \notin rem}

\* the call ends: get_dependency_order hands its result to its caller;
\* validate_workflow catches ValueError only
OrderEnds(kind, value) ==
    IF val_entry = "get_dependency_order"
    THEN /\ val_pc' = "done"
         /\ val_ret' = [kind |-> kind, value |-> value]
         /\ issues' = issues
    ELSE IF kind = "TypeError"
    THEN /\ val_pc' = "done"
         /\ val_ret' = [kind |-> "TypeError", value |-> <<>>]
         /\ issues' = issues
    ELSE /\ val_pc' = "checks"
         /\ val_ret' = val_ret
         /\ issues' = IF kind = "ValueError"
                       THEN issues \cup {[issue |-> "Circular dependency", of |-> ""]}
                       ELSE issues

\* get_dependency_order up to its loop
OrderBegin ==
    /\ val_pc = "call"
    /\ remaining_teams' = team_ids(wf)
    /\ levels' = <<>>
    /\ val_pc' = "loop"
    /\ UNCHANGED <<orch_core, hist, pipe, obs, halt, removal, wf, planner, val_entry, issues, val_ret>>

\* one turn of `while remaining_teams`
OrderStep ==
    /\ val_pc = "loop"
    /\ remaining_teams # {}
    /\ IF \E team_id \in remaining_teams : Unhashable(team_deps(wf, team_id))
       THEN /\ OrderEnds("TypeError", <<>>)
            /\ UNCHANGED <<remaining_teams, levels>>
       ELSE IF ReadyIds(wf, remaining_teams) = {}
       THEN /\ OrderEnds("ValueError", <<>>)
            /\ UNCHANGED <<remaining_teams, levels>>
       ELSE /\ levels' = Append(levels, ReadyIds(wf, remaining_teams))
            /\ remaining_teams' = remaining_teams \ ReadyIds(wf, remaining_teams)
            /\ UNCHANGED <<val_pc, val_ret, issues>>
    /\ UNCHANGED <<orch_core, hist, pipe, obs, halt, removal, wf, planner, val_entry>>

\* `return levels`
OrderReturn ==
    /\ val_pc = "loop"
    /\ remaining_teams = {}
    /\ OrderEnds("levels", levels)
    /\ UNCHANGED <<orch_core, hist, pipe, obs, halt, removal, wf, planner, val_entry,
                   remaining_teams, levels>>

\* validate_workflow after the try block: the missing dependencies, then
\* the duplicate ids
ValidateChecks ==
    /\ val_pc = "checks"
    /\ val_pc' = "done"
    /\ IF \E k \in DOMAIN wf : Truthy(wf[k].depends_on) /\ Unhashable(wf[k].depends_on)
       THEN /\ val_ret' = [kind |-> "TypeError", value |-> <<>>]
            /\ issues' = issues
       ELSE LET unknown == {[issue |-> "depends on unknown team", of |-> wf[k].name] :
                               k \in {m \in DOMAIN wf :
                                         /\ Truthy(wf[m].depends_on)
                                         /\ wf[m].depends_on.names[1] \notin team_ids(wf)}}
                duplicates == {[issue |-> "Duplicate team id", of |-> wf[k].name] :
                                  k \in {m \in DOMAIN wf :
                                            \E l \in DOMAIN wf \ {m} : wf[l].name = wf[m].name}}
            IN  /\ issues' = issues \cup unknown \cup duplicates
                /\ val_ret' = [kind |-> "issues", value |-> issues \cup unknown \cup duplicates]
    /\ UNCHANGED <<orch_core, hist, pipe, obs, halt, removal, wf, planner, val_entry,
                   remaining_teams, levels>>

\* one of the two methods is called on a loaded workflow
InitOrder ==
    /\ InitCore
    /\ depends_on = [t \in Teams |-> {}]
    /\ bodyFails = {}
    /\ createFails = {}
    /\ NoPipeline
    /\ pc = [th \in Threads |-> "idle"]
    /\ wf \in PlanWorkflows(MaxPlanTeams)
    /\ NoPlanner
    /\ val_entry \in {"get_dependency_order", "validate_workflow"}
    /\ val_pc = "call"
    /\ remaining_teams = {}
    /\ levels = <<>>
    /\ issues = {}
    /\ val_ret = NoPlanRet

NextOrder ==
    \/ OrderBegin
    \/ OrderStep
    \/ OrderReturn
    \/ ValidateChecks

SpecOrder == InitOrder /\ [][NextOrder]_vars

\* ============================================================ properties
\* the record of team t in the table, if any
RecordsOf(t) == {n \in 1..Len(team_subs) : team_subs[n].team = t}

\* the subscription a thread inside set() has submitted or is about to submit
CurrentSub(th) == call[th].team_subs_copy[call[th].i]

\* the driver has called run() on every team and run() has returned
DriverDone == pc[Driver] = "run" /\ nextRun > Len(TeamList)

\* nothing is submitted, running or inside set()
Quiescent ==
    /\ \A w \in Workers : pc[w] = "idle"
    /\ \A t \in Teams : executor[t] = 0
    /\ ~InSet(Driver)

\* the first set() call whose snapshot held t's record satisfied has returned
FirstSatReturned(t) ==
    /\ t \in satSeen
    /\ \A th \in Threads : InSet(th) => t \notin call[th].satfirst

WaitsOnAB == [t \in Teams |-> IF t = "C" THEN {"A", "B"} ELSE {}]
RootAndLeaves == [t \in Teams |-> IF t = "A" THEN {} ELSE {"A"}]

\* C1: every subscription's start action is submitted to the executor at
\* most once, whatever the interleaving of set calls of the driver and of
\* the pool workers.
C1_SubmittedAtMostOnce == \A t \in Teams : dispatches[t] <= 1

\* C2: a subscription with a non-empty wait-set W is never dispatched before
\* every id of W has been written COMPLETE, and the set call that dispatches
\* it holds a snapshot in which every id of W is COMPLETE.
C2_NotBeforeDependencies ==
    \A t \in Teams :
        depends_on[t] # {} =>
            /\ dispatches[t] > 0 => depends_on[t] \subseteq everComplete
            /\ \A th \in Threads :
                  (pc[th] = "mark" /\ CurrentSub(th).team = t)
                      => \A a \in depends_on[t] : call[th].data_copy[a] = COMPLETE

C2_Witness ==
    /\ depends_on = WaitsOnAB
    /\ dispatches["C"] > 0
    /\ \E th \in Threads : pc[th] = "mark" /\ CurrentSub(th).team = "C"

\* C3: in a workflow whose task bodies all succeed, once the driver has
\* called run() on every team every team ends Complete: when nothing is
\* left to run, every team's status is COMPLETE.
C3_AllEndComplete ==
    (bodyFails = {} /\ createFails = {} /\ DriverDone /\ Quiescent)
        => \A t \in Teams : Get(data, t) = COMPLETE

C5_EmptyWaitSetNextCall ==
    \A t \in Teams :
        (t \in initialized /\ depends_on[t] = {}) =>
            /\ t \notin satSeen => dispatches[t] = 0
            /\ FirstSatReturned(t) => t \in byFirst

\* A was dispatched by a call that wrote ERROR to B
C5_Witness ==
    /\ depends_on["A"] = {}
    /\ "A" \in byFirst
    /\ FirstSatReturned("A")
    /\ data["A"] = Unset
    /\ data["B"] = ERROR

\* C6: with leaves B and C waiting on the root A, each leaf is dispatched
\* exactly once over the whole run.
C6_LeavesExactlyOnce ==
    (depends_on = RootAndLeaves /\ bodyFails = {} /\ createFails = {}) =>
        \A leaf \in {"B", "C"} :
            /\ dispatches[leaf] <= 1
            /\ (DriverDone /\ Quiescent) => dispatches[leaf] = 1

\* C7: when A fails in its body and B waits on {A}, B is never dispatched,
\* and from the write of ERROR onwards has_errors(A) stays true.
C7_ErrorStays ==
    [][("A" \in bodyFails /\ depends_on["B"] = {"A"}) =>
          /\ dispatches'["B"] = 0
          /\ has_errors(data, "A") => has_errors(data', "A")]_vars

C9_FailedRecordRemoved ==
    \A t \in handled :
        /\ RecordsOf(t) = {}
        /\ \A th \in Threads :
              (InSet(th) /\ t \in call[th].late) => CurrentSub(th).team # t

\* C10: a call of Team.start that raises leaves the team's status at ERROR,
\* and one that returns normally leaves it at COMPLETE.
C10_StatusOnExit ==
    [][\A w \in Workers :
          /\ (pc[w] # "handler" /\ pc'[w] = "handler")
                => Get(data', task'[w].team) = ERROR
          /\ (pc[w] # "handler" /\ task[w] # NoTask /\ task'[w] = NoTask)
                => Get(data', task[w].team) = COMPLETE]_vars

\* C11: for every id, STARTED is written at most once and only while the id
\* is PENDING: the Team.start that writes it is the first start of that team
\* a worker has begun.  (Every Team.start that writes STARTED writes exactly
\* one of COMPLETE and ERROR afterwards, and writes neither before.)
C11_StartedOnceWhilePending ==
    [][\A t \in Teams :
          (\E w \in Workers : TeamStart(w, t)) =>
              /\ Get(data, t) = PENDING
              /\ dispatches[t] - executor[t] = 0]_vars

\* C12: a run() call only re-affirms PENDING: no id whose status is STARTED,
\* COMPLETE or ERROR is ever set back to PENDING.
C12_RunOnlyReaffirms ==
    [][\A t \in Teams :
          Get(data, t) \in {STARTED, COMPLETE, ERROR} => data'[t] # PENDING]_vars

\* C13: all_complete() is false whenever some registered id, written or not,
\* is not COMPLETE.
C13_AllCompleteRegistered ==
    all_complete(data) => \A t \in initialized : Get(data, t) = COMPLETE

C14_NoLostWrites ==
    /\ [](data = written)
    /\ [][\A th \in Threads :
             (~InSet(th) /\ pc'[th] = "submit") => call'[th].data_copy = written']_vars

\* two threads inside set() on distinct ids, both writes in the registry
C14_Witness ==
    /\ overlap
    /\ InSet(Driver)
    /\ \E w \in Workers :
          /\ InSet(w)
          /\ call[w].key # call[Driver].key
          /\ data[call[w].key] = call[w].value
          /\ data[call[Driver].key] = call[Driver].value

\* C15: get(id) returns PENDING for an id that was never written and the
\* last written status otherwise, and changes neither registry nor table.
C15_GetReturnsLastWritten ==
    [][\A key \in Teams :
          ClientGet(key) =>
              /\ call'[Driver].value =
                    (IF written[key] = Unset THEN PENDING ELSE written[key])
              /\ UNCHANGED <<data, team_subs>>]_vars

\* get returned PENDING for a registered id that was never written, while
\* another id holds a written status
C15_Witness ==
    /\ call[Driver].ret = "get"
    /\ call[Driver].key = "B"
    /\ call[Driver].value = PENDING
    /\ written["B"] = Unset
    /\ "B" \in initialized
    /\ written["A"] = ERROR

\* C17: no thread waits for the registry lock while it holds it, and every
\* set call, from the client or from Team.start on a worker, eventually
\* returns.
C17_SetAlwaysReturns ==
    /\ [](\A th \in Threads : AtLock(th) => th \notin lock)
    /\ \A th \in Threads : InCall(th) ~> ~InCall(th)

\* a worker's set call waits for the lock while the client is inside its
\* critical section
C17_Witness ==
    \E w \in Workers :
        /\ pc[w] = "want_set"
        /\ call[w].value = COMPLETE
        /\ lock = {Driver}
        /\ pc[Driver] = "in_mark"

\* C18: no thread holds the registry lock while a task body runs on it, and
\* a thread inside set is never held up by the starts it dispatches: the
\* submit is always possible, and after it only the lock is waited for.
C18_LockNotHeldInBody ==
    /\ \A w \in Workers : pc[w] = "body" => w \notin lock
    /\ \A th \in Threads :
          /\ pc[th] = "submit" => ENABLED SetSubmit(th)
          /\ (pc[th] = "mark" /\ LockFree) => ENABLED LockAcquire(th)

\* the client's set call has returned while the start it dispatched has not
\* begun, and a task body runs on the worker with the lock free
C18_Witness ==
    /\ pc[Driver] = "client"
    /\ clientSets > 0
    /\ \E t \in Teams : dispatches[t] > 0 /\ executor[t] > 0
    /\ \E w \in Workers : pc[w] = "body"
    /\ lock = {}

\* the ids t waits for, directly or through other teams
Upstream(t) ==
    LET U1 == depends_on[t]
        U2 == U1 \cup UNION {depends_on[u] : u \in U1}
    IN  U2 \cup UNION {depends_on[u] : u \in U2}

\* C19: the failure of A's start action stops neither set nor the worker:
\* when the run has come to rest after A's body failed, every team that does
\* not wait for A, directly or transitively, and whose wait-set has been
\* written COMPLETE has been started.
C19_FailureDoesNotBlockOthers ==
    ("A" \in bodyFails /\ DriverDone /\ Quiescent) =>
        \A t \in Teams \ {"A"} :
            ("A" \notin Upstream(t) /\ depends_on[t] \subseteq everComplete)
                => dispatches[t] >= 1

\* A has failed and its handler has finished; C, which waits on B only, was
\* started afterwards and the run has come to rest
C19_Witness ==
    /\ "A" \in bodyFails /\ "A" \in handled /\ has_errors(data, "A")
    /\ depends_on["C"] = {"B"}
    /\ dispatches["C"] >= 1
    /\ data["C"] = COMPLETE
    /\ DriverDone /\ Quiescent

\* C20: in ObservableStore.set, a subscription with trigger 'any_error' has
\* stop submitted exactly when some id of its wait-set is ERROR in the call's
\* snapshot; start is never submitted for it, and with an empty wait-set
\* nothing is.
C20_AnyErrorStops ==
    \A n \in 1..Len(o_call.acted) :
        LET sub == o_call.team_subs_copy[n]
        IN  sub.trigger = "any_error" =>
                /\ o_call.acted[n] = "stop"
                      <=> \E a \in sub.agent_ids : Get(o_call.data_copy, a) = ERROR
                /\ o_call.acted[n] # "start"
                /\ "start" \notin o_fired[sub.team]
                /\ sub.agent_ids = {} => o_call.acted[n] = "none"

\* one call has evaluated an any_error subscription on {A, B} with B in
\* ERROR and A not, and submitted stop; and one with an empty wait-set
C20_Witness ==
    /\ Len(o_call.acted) = 2
    /\ o_call.team_subs_copy[1].trigger = "any_error"
    /\ o_call.team_subs_copy[1].agent_ids = {"A", "B"}
    /\ o_call.data_copy["B"] = ERROR /\ o_call.data_copy["A"] = COMPLETE
    /\ o_call.acted[1] = "stop"
    /\ o_call.team_subs_copy[2].trigger = "any_error"
    /\ o_call.team_subs_copy[2].agent_ids = {}
    /\ o_call.acted[2] = "none"

\* C21: Team.stop(force) never raises, whatever the state of the team:
\* before initialize, after an initialize that failed, before, during and
\* after start.
C21_StopNeverRaises == stop_ret.outcome # "raised"

\* some team waits for itself, directly or through other teams
HasCycle == \E t \in Teams : t \in Upstream(t)

\* C22: when the declared graph has a dependency cycle the run is aborted
\* before any task starts: no team's start is ever dispatched, the teams
\* outside the cycle included.
C22_FaultyGraphStartsNothing ==
    HasCycle => \A t \in Teams : dispatches[t] = 0

\* --- the reference layering of a workflow, stated on sets
\* the pre-completed team: the first team named last_team_executed
PreCompleted ==
    {k \in DOMAIN wf : /\ wf[k].name = last_team_executed
                       /\ \A l \in 1..(k-1) : wf[l].name # last_team_executed}

\* the names team k depends on
DepSet(k) ==
    IF wf[k].depends_on.form = "none" THEN {}
    ELSE {wf[k].depends_on.names[n] : n \in 1..Len(wf[k].depends_on.names)}

\* the teams of the first i phases of plan ps
PlacedBy(ps, i) == UNION {{ps[j][n] : n \in 1..Len(ps[j])} : j \in 1..i}

\* every dependency of team k names a team of Done
SatisfiedBy(k, Done) == \A d \in DepSet(k) : \E j \in Done : wf[j].name = d

\* what is left to place after the first i phases of ps
UnplacedAfter(ps, i) == DOMAIN wf \ (PreCompleted \cup PlacedBy(ps, i))

\* C23: when get_execution_phases returns, the phases are the reference
\* layering: every team but the pre-completed one is in exactly one phase, a
\* team is in phase i only if each of its dependencies is pre-completed or
\* in an earlier phase, and phase i holds every team not placed before whose
\* dependencies are all satisfied at that step.
C23_PhasesAreReferenceLayering ==
    plan_ret.kind = "phases" =>
        LET ps == plan_ret.value
        IN  /\ \A k \in DOMAIN wf \ PreCompleted :
                  Cardinality({ij \in (1..Len(ps)) \X (1..Len(wf)) :
                                  ij[2] <= Len(ps[ij[1]]) /\ ps[ij[1]][ij[2]] = k}) = 1
            /\ PlacedBy(ps, Len(ps)) \cap PreCompleted = {}
            /\ \A i \in 1..Len(ps) :
                  {ps[i][n] : n \in 1..Len(ps[i])} =
                      {k \in UnplacedAfter(ps, i-1) :
                          SatisfiedBy(k, PreCompleted \cup PlacedBy(ps, i-1))}

\* resuming after A: B (waiting on A) is planned first, then C, whose list
\* names A and B
C23_Witness ==
    /\ plan_ret.kind = "phases"
    /\ last_team_executed = "A"
    /\ Len(wf) = 3
    /\ wf[3].depends_on = [form |-> "list", names |-> <<"A", "B">>]
    /\ plan_ret.value = <<<<2>>, <<3>>>>

\* C24: whenever a planning step finds no ready team while unplaced teams
\* remain, get_execution_phases raises an error that lists exactly the
\* unplaced teams, and it returns no plan.
C24_StrandedTeamsReported ==
    /\ [][(/\ plan_pc = "loop"
            /\ UnplacedAfter(phases, Len(phases)) # {}
            /\ \A k \in UnplacedAfter(phases, Len(phases)) :
                   ~SatisfiedBy(k, PreCompleted \cup PlacedBy(phases, Len(phases))))
              => /\ plan_pc' = "raised"
                 /\ plan_ret'.kind = "error"
                 /\ plan_ret'.value = InOrder(UnplacedAfter(phases, Len(phases)))]_vars
    /\ [](plan_pc = "raised" => plan_ret.kind = "error")

\* one team was planned; the two that wait on each other are reported
C24_Witness ==
    /\ plan_pc = "raised"
    /\ Len(phases) = 1
    /\ plan_ret.value = <<2, 3>>
    /\ wf[2].depends_on.names = <<"C">>
    /\ wf[3].depends_on.names = <<"B">>

\* C29: get_execution_phases terminates on every workflow: every turn of
\* its loop places at least one new team or ends the call, and the call
\* eventually returns or raises.
C29_PlannerTerminates ==
    /\ [][(plan_pc = "loop" /\ plan_pc' = "loop")
              => /\ completed_teams \subseteq completed_teams'
                 /\ completed_teams' # completed_teams]_vars
    /\ <>(plan_pc \in {"returned", "raised"})

\* the call has ended on a workflow with a duplicate name, a dependency on
\* an unknown name and a resume point, after placing a team
C29_Witness ==
    /\ plan_pc = "raised"
    /\ Len(phases) = 1
    /\ last_team_executed = "A"
    /\ Len(wf) = 3
    /\ wf[1].name = "A" /\ wf[2].name = "A"
    /\ wf[3].depends_on = [form |-> "single", names |-> <<"X">>]

\* --- faults of a declared workflow, stated on its teams
DuplicateId == \E k \in DOMAIN wf, l \in DOMAIN wf : k # l /\ wf[k].name = wf[l].name

UnknownDependency == \E k \in DOMAIN wf : \E d \in DepSet(k) : d \notin team_ids(wf)

\* the teams that team k depends on, in at most n steps
RECURSIVE ReachedFrom(_, _)
ReachedFrom(k, n) ==
    IF n = 0 THEN {}
    ELSE LET direct == {j \in DOMAIN wf : wf[j].name \in DepSet(k)}
         IN  direct \cup UNION {ReachedFrom(j, n-1) : j \in direct}

DependencyCycle == \E k \in DOMAIN wf : k \in ReachedFrom(k, Len(wf))

\* C25: validate_workflow returns a list of issues, and the list is
\* non-empty exactly when the workflow has a duplicate id, a dependency that
\* names no team, or a dependency cycle, whichever form depends_on takes; it
\* never raises instead.
C25_ValidateReportsExactly ==
    (val_entry = "validate_workflow" /\ val_pc = "done") =>
        /\ val_ret.kind = "issues"
        /\ val_ret.value # {} <=> (DuplicateId \/ UnknownDependency \/ DependencyCycle)

\* the level of get_dependency_order's result that holds id
LevelOf(ls, id) == CHOOSE i \in 1..Len(ls) : id \in ls[i]

\* C26: the levels get_dependency_order returns partition the team ids; an
\* id whose dependency is another id of the workflow is in a strictly later
\* level than it, ids without a dependency are in the first level, and ids
\* with the same dependency are in the same level (the dependency of an id
\* is that of its declaration, the last one when the id is repeated).  A
\* turn of the loop in which every remaining id waits for a remaining id
\* raises 'Circular dependency'.
C26_LevelsRespectDependencies ==
    /\ [](val_ret.kind = "levels" =>
            LET ls == val_ret.value
                ids == team_ids(wf)
                dep(id) == team_deps(wf, id)
            IN  /\ UNION {ls[i] : i \in 1..Len(ls)} = ids
                /\ \A i \in 1..Len(ls), j \in 1..Len(ls) :
                      i # j => ls[i] \cap ls[j] = {}
                /\ \A i \in 1..Len(ls) : ls[i] # {}
                /\ \A id \in ids :
                      /\ dep(id).form = "none" => LevelOf(ls, id) = 1
                      /\ (dep(id).form = "single" /\ dep(id).names[1] \in ids \ {id})
                            => LevelOf(ls, dep(id).names[1]) < LevelOf(ls, id)
                /\ \A a \in ids, b \in ids :
                      (dep(a) = dep(b) /\ dep(a).form = "single" /\ dep(a).names[1] \in ids)
                          => LevelOf(ls, a) = LevelOf(ls, b))
    /\ [][(/\ val_entry = "get_dependency_order"
            /\ val_pc = "loop"
            /\ remaining_teams # {}
            /\ \A id \in remaining_teams :
                   /\ team_deps(wf, id).form = "single"
                   /\ team_deps(wf, id).names[1] \in remaining_teams)
              => val_ret'.kind = "ValueError"]_vars

\* a root and two branches that wait on it: two levels
C26_Witness ==
    /\ val_entry = "get_dependency_order"
    /\ val_ret.kind = "levels"
    /\ val_ret.value = <<{"A"}, {"B", "C"}>>
    /\ wf[2].depends_on = [form |-> "single", names |-> <<"A">>]
    /\ wf[3].depends_on = wf[2].depends_on

\* team t is registered with a non-empty wait-set that is COMPLETE, and no
\* set call has taken a snapshot that held its record satisfied
Awaiting(t) ==
    /\ RecordsOf(t) # {}
    /\ depends_on[t] # {}
    /\ is_completed(data, depends_on[t])
    /\ t \notin satSeen

\* a thread calls set: the client, or Team.start on a worker
IsSetCall ==
    \/ \E key \in Teams, value \in TaskStatus : ClientSet(key, value)
    \/ \E w \in Workers, t \in Teams : TeamStart(w, t)
    \/ \E w \in Workers : TeamBody(w)

\* a team with a non-empty wait-set is not dispatched before a set call has
\* held its record satisfied, and the first such call dispatches it
DispatchedByFirstSatisfied ==
    \A t \in Teams :
        depends_on[t] # {} =>
            /\ t \notin satSeen => dispatches[t] = 0
            /\ FirstSatReturned(t) => t \in byFirst

\* C30 as stated: a subscription registered when every id of its non-empty
\* wait-set is already COMPLETE is not started by registration, stays
\* unstarted while no set call is made, and is dispatched by the next set
\* call, on any id.
C30_NextCallDispatches ==
    /\ []DispatchedByFirstSatisfied
    /\ [][\A t \in Teams :
             (Awaiting(t) /\ IsSetCall)
                 => \E th \in Threads : InSet(th)' /\ t \in call'[th].satfirst]_vars

\* C30, amended: ... and is dispatched by the next set call unless that
\* call itself writes a status other than COMPLETE to an id of the wait-set;
\* it is then dispatched by the first later call whose snapshot has the
\* wait-set COMPLETE again.
C30_NextCallDispatchesIfStillComplete ==
    /\ []DispatchedByFirstSatisfied
    /\ [][\A t \in Teams :
             (Awaiting(t) /\ IsSetCall /\ is_completed(data', depends_on[t]))
                 => \E th \in Threads : InSet(th)' /\ t \in call'[th].satfirst]_vars
    /\ [][\A t \in Teams :
             (Awaiting(t) /\ ~IsSetCall) => dispatches'[t] = 0]_vars

\* A was written COMPLETE by the client and never started; B, which waits on
\* A, is submitted by the client's call set(B, PENDING), the first call to
\* hold B's record
C30_Witness ==
    /\ depends_on["B"] = {"A"}
    /\ pc[Driver] = "mark"
    /\ CurrentSub(Driver).team = "B"
    /\ call[Driver].key = "B" /\ call[Driver].value = PENDING
    /\ call[Driver].data_copy["A"] = COMPLETE
    /\ "B" \in call[Driver].satfirst
    /\ dispatches["B"] = 1
    /\ Begun("A") = 0


\* ------------------------------------------------- unsubscribe, twins
\* the ids of the records whose unsubscribe function has returned
Unsubscribed == {unsub_calls[n] : n \in 1..Len(unsub_calls)}

\* every subscription made for team t is in `gone`
AllGone(t, gone) ==
    \A k \in 1..2 : Subscribed(t, k) => Oid(t, k) \in gone

\* a record's dict, whichever object holds it
Content(r) == [r EXCEPT !.oid = 0]

\* how many records of the table hold the dict c
CountOf(subs, c) == Cardinality({n \in 1..Len(subs) : Content(subs[n]) = c})

\* two tables hold the same dicts, each as often
SameRecords(s1, s2) ==
    \A c \in {Content(s1[n]) : n \in 1..Len(s1)} \cup {Content(s2[n]) : n \in 1..Len(s2)} :
        CountOf(s1, c) = CountOf(s2, c)

\* the table without the record object o
Without(subs, o) == SelectSeq(subs, LAMBDA r : r.oid # o)

\* C27: once the unsubscribe functions of all subscriptions of a team have
\* returned, no set call that begins afterwards dispatches the team; a call
\* of unsubscribe leaves the statuses alone and leaves in the table the
\* records it held before, less the record of its own subscription; a
\* second call of the same function leaves the table as it is.
C27_UnsubscribeRemovesOwnRecordOnce ==
    /\ [](\A th \in Threads :
             InSet(th) => ~AllGone(CurrentSub(th).team, call[th].gone))
    /\ [][\A t \in Teams, k \in 1..2 :
             Unsubscribe(t, k) =>
                 /\ data' = data
                 /\ SameRecords(team_subs',
                                IF Oid(t, k) \in Unsubscribed
                                THEN team_subs
                                ELSE Without(team_subs, Oid(t, k)))]_vars

\* C28: when a set call marks a record after firing a subscription, the
\* record that becomes triggered is the one whose copy fired, and every
\* other record of the table stays as it was.
C28_MarksTheFiredRecord ==
    [][\A th \in Threads :
          SetMark(th) =>
              /\ Len(team_subs') = Len(team_subs)
              /\ \A n \in 1..Len(team_subs) :
                    team_subs'[n] = IF team_subs[n].oid = CurrentSub(th).oid
                                    THEN [team_subs[n] EXCEPT !.triggered = TRUE]
                                    ELSE team_subs[n]]_vars

====
